---- MODULE Spec2Model ----
(***************************************************************************)
(* Steel Agent API (backend/server.py, backend/agent.py).                  *)
(*                                                                         *)
(* The HTTP layer answers POST /api/chat either from a static keyword      *)
(* table (demo mode) or from the retrieve-then-generate pipeline           *)
(* (production mode), and GET /health with the mode chosen at import time. *)
(*                                                                         *)
(* Python strings are TLA+ strings; a Python list is a sequence; a dict    *)
(* whose iteration order matters is a sequence of records in insertion     *)
(* order; None-or-value is a sequence of length 0 or 1.                    *)
(***************************************************************************)
EXTENDS Integers, Sequences, FiniteSets, TLC

VARIABLES
    environ,        \* os.environ restricted to the two credential variables
    DEMO_MODE,      \* server.DEMO_MODE, bound once when server.py is imported
    startEnviron,   \* history: os.environ as it was when server.py was imported
    index,          \* passages stored in the vector index (agent.vectorstore)
    reqs,           \* the HTTP requests to /api/chat and how far each has got
    healthResp,     \* the last answer of GET /health, <<>> before the first one
    query,          \* argument of a direct call of get_demo_response
    nfrags,         \* number of fragments the query was put together from
    demo_result,    \* <<>> or <<the dict returned by get_demo_response(query)>>
    state,          \* AgentState handed to a direct call of retrieve
    docs,           \* <<>> or <<the list similarity_search returned to that call>>
    node_result,    \* <<>> or <<the dict returned by retrieve(state)>>
    states2,        \* <<>> or two AgentStates the nodes are run on side by side
    issued2,        \* <<>> or, for each of the two, the index query and the prompt issued
    demo_table,     \* the dict object the module global DEMO_RESPONSES is bound to
    ingest          \* a run of ingest_data (ingest.py) and the world it runs in

vars == <<environ, DEMO_MODE, startEnviron, index, reqs, healthResp,
          query, nfrags, demo_result, state, docs, node_result,
          states2, issued2, demo_table, ingest>>

serverVars == <<environ, DEMO_MODE, startEnviron, reqs, healthResp, demo_table>>
demoVars == <<query, nfrags, demo_result>>
nodeVars == <<state, docs, node_result, states2, issued2>>
ingestVars == <<ingest>>

-----------------------------------------------------------------------------
(* Bounds of the model.                                                    *)

\* fragments a query of the get_demo_response harness is concatenated from
MaxFrags == 2
\* /api/chat requests in one run of the server
MaxReq == 2
\* passages stored in the vector index when retrieve is called directly
MaxPassages == 6

-----------------------------------------------------------------------------
(* str methods used by the code.                                           *)

UpperCase == "ABCDEFGHIJKLMNOPQRSTUVWXYZ"
LowerCase == "abcdefghijklmnopqrstuvwxyz"

\* one character of str.lower()
LowerChar(c) ==
    IF \E i \in 1..Len(UpperCase) : SubSeq(UpperCase, i, i) = c
    THEN LET i == CHOOSE j \in 1..Len(UpperCase) : SubSeq(UpperCase, j, j) = c
         IN  SubSeq(LowerCase, i, i)
    ELSE c

RECURSIVE lower(_)
\* s.lower()
lower(s) ==
    IF s = "" THEN ""
    ELSE LowerChar(SubSeq(s, 1, 1)) \o lower(SubSeq(s, 2, Len(s)))

\* `sub in s` for two strings: sub occurs in s as a contiguous substring
StrIn(sub, s) ==
    \E i \in 1..(Len(s) - Len(sub) + 1) : SubSeq(s, i, i + Len(sub) - 1) = sub

RECURSIVE join(_, _)
\* sep.join(parts)
join(sep, parts) ==
    IF parts = <<>> THEN ""
    ELSE IF Len(parts) = 1 THEN parts[1]
    ELSE parts[1] \o sep \o join(sep, Tail(parts))

-----------------------------------------------------------------------------
(* Demo data (server.py).  Each response is given up to the end of its     *)
(* first line and each content_preview up to its first non-ASCII           *)
(* character; keys, keywords, refs, documents and pages are verbatim.      *)

DEMO_RESPONSES ==
  <<
    [key |-> "yield strength",
      query_match |-> <<"yield strength", "a106", "grade b">>,
      response |->
        "According to ASTM A106 [1], Grade B seamless carbon steel pipe has:",
      sources |->
        <<[ref |-> "[1]", document |-> "ASTM_A106.pdf", page |-> "3",
           content_preview |->
             "Table 1 - Tensile Requirements: Grade B - Tensile strength, min, ksi [MPa]: 60 [415]. Yield strength, min, ksi [MPa]: 35 [240]."],
          [ref |-> "[2]", document |-> "ASTM_A106.pdf", page |-> "5",
           content_preview |->
             "Chemical Composition - Grade B: Carbon max 0.30%, Manganese 0.29-1.06%, Phosphorus max 0.035%, Sulfur max 0.035%."]>>],
    [key |-> "nace",
      query_match |-> <<"nace", "4140", "sour", "h2s", "mr0175">>,
      response |->
        "AISI 4140 steel can meet NACE MR0175/ISO 15156 requirements for sour service, but **only with proper heat treatment** [1].",
      sources |->
        <<[ref |-> "[1]", document |-> "NACE_MR0175_ISO15156.pdf", page |-> "12",
           content_preview |->
             "Table A.2 - Low-alloy steels: Maximum hardness 22 HRC. Materials shall be in the quenched and tempered, normalized and tempered, or normalized condition."],
          [ref |-> "[2]", document |-> "AISI_4140_DataSheet.pdf", page |-> "2",
           content_preview |->
             "Mechanical Properties - Quenched & Tempered at 400"]>>],
    [key |-> "compare",
      query_match |-> <<"compare", "a53", "a106", "difference", "vs">>,
      response |->
        "**ASTM A106 vs A53 Comparison for High-Temperature Service:**",
      sources |->
        <<[ref |-> "[1]", document |-> "ASTM_A106.pdf", page |-> "1",
           content_preview |->
             "Scope: This specification covers seamless carbon steel pipe for high-temperature service."],
          [ref |-> "[2]", document |-> "ASTM_A53.pdf", page |-> "1",
           content_preview |->
             "Scope: This specification covers seamless and welded black and hot-dipped galvanized steel pipe for ordinary uses."],
          [ref |-> "[3]", document |-> "ASME_B31.3_TableA1.pdf", page |-> "45",
           content_preview |->
             "Allowable Stress Values - A106 Grade B is listed with stress values up to 1000"]>>],
    [key |-> "hardness",
      query_match |-> <<"hardness", "sour service", "maximum", "limit", "hrc">>,
      response |->
        "Per **NACE MR0175/ISO 15156**, the maximum allowable hardness for carbon and low-alloy steels in sour (H2S) service is [1]:",
      sources |->
        <<[ref |-> "[1]", document |-> "NACE_MR0175_ISO15156-2.pdf", page |-> "8",
           content_preview |->
             "Section 7.2 - Hardness: The maximum hardness of carbon steel and low-alloy steel shall not exceed 22 HRC."],
          [ref |-> "[2]", document |-> "NACE_MR0175_ISO15156-2.pdf", page |-> "15",
           content_preview |->
             "Table 1 - H2S limits: For SSC Region 0, partial pressure of H2S > 0.05 psi requires compliance with hardness and other requirements."]>>],
    [key |-> "a333",
      query_match |-> <<"a333", "grade 6", "low temperature", "cryogenic">>,
      response |->
        "**ASTM A333 Grade 6** is the most common carbon steel for low-temperature service [1]:",
      sources |->
        <<[ref |-> "[1]", document |-> "ASTM_A333.pdf", page |-> "2",
           content_preview |->
             "Table 1 - Grade 6: Min tensile 60 ksi, min yield 35 ksi. Impact test temperature -50"],
          [ref |-> "[2]", document |-> "ASTM_A333.pdf", page |-> "4",
           content_preview |->
             "Section 6 - Impact Requirements: Charpy V-notch specimens shall exhibit minimum 15 ft-lbf at specified test temperature."]>>],
    [key |-> "default",
      response |->
        "I found relevant information in the steel specifications database.",
      sources |->
        <<[ref |-> "[1]", document |-> "Steel_Specifications_Index.pdf", page |-> "1",
           content_preview |->
             "This knowledge base contains ASTM, API, ASME, and NACE standards for steel materials used in oil & gas and industrial applications."]>>]
  >>

\* data.get(name, default) on a dict modelled as a record
DictGet(data, name, default) ==
    IF name \in DOMAIN data THEN data[name] ELSE default

\* DEMO_RESPONSES[key]
DemoEntry(key) ==
    demo_table[CHOOSE i \in 1..Len(demo_table) : demo_table[i].key = key]

\* any(keyword in query_lower for keyword in data.get("query_match", []))
AnyKeyword(data, query_lower) ==
    LET query_match == DictGet(data, "query_match", <<>>)
    IN  \E n \in 1..Len(query_match) : StrIn(query_match[n], query_lower)

\* slip: the fallback drops the sources of the default entry
DefaultResultNoSources ==
    [response |-> DemoEntry("default").response, sources |-> <<>>]

\* the return after the loop: the response and sources of the default entry
DefaultResult ==
    [response |-> DemoEntry("default").response,
     sources |-> DemoEntry("default").sources]

RECURSIVE DemoScan(_, _)
\* the for loop of get_demo_response from the i-th item of DEMO_RESPONSES on
DemoScan(i, query_lower) ==
    IF i > Len(demo_table)
    THEN DefaultResult
    ELSE LET data == demo_table[i]
         IN  IF data.key = "default" THEN DemoScan(i + 1, query_lower)
             ELSE IF AnyKeyword(data, query_lower)
                  THEN [response |-> data.response, sources |-> data.sources]
                  ELSE DemoScan(i + 1, query_lower)

\* slip: the query is matched as typed, without query.lower()
get_demo_response_as_typed(q) == DemoScan(1, q)

get_demo_response(q) == DemoScan(1, lower(q))

-----------------------------------------------------------------------------
(* Values shared by the specifications.                                    *)

\* os.environ.get(name): <<>> when unset, <<value>> when set
Unset == <<>>
EnvValues == {Unset, <<"">>, <<"key">>}

\* truth value of what os.getenv returned (None and "" are falsy)
Truthy(v) == v # Unset /\ v[1] # ""

\* the parts of the state a specification does not use, at rest
IdleIngest == [pc |-> "idle"]
IdleEnviron == [GOOGLE_API_KEY |-> Unset, PINECONE_API_KEY |-> Unset]

-----------------------------------------------------------------------------
(* Direct calls of get_demo_response: the query is put together from       *)
(* fragments (keywords in either case, pieces of keywords, filler) or is   *)
(* one of the example queries the default response suggests.               *)

Fragments ==
    { "yield strength", "a106", "A106", "Grade B",
      "nace", "4140", "sour", " service", "h2", "s", "mr0175",
      "compare", "a53", "difference", "VS",
      "hardness", "Maximum", "limit", "hrc",
      "a333", "grade 6", "low temperature", "cryogenic",
      "x", " " }

\* the example queries listed in DEMO_RESPONSES["default"]["response"]
SuggestedQueries ==
    { "What is the yield strength of A106 Grade B?",
      "Does 4140 steel meet NACE MR0175?",
      "Compare A53 and A106 for high-temperature service",
      "Maximum hardness for sour service?" }

InitDemo ==
    /\ query = ""
    /\ nfrags = 0
    /\ demo_result = <<>>
    /\ environ = IdleEnviron
    /\ DEMO_MODE = TRUE
    /\ startEnviron = IdleEnviron
    /\ index = {}
    /\ reqs = <<>>
    /\ healthResp = <<>>
    /\ state = [messages |-> <<>>, context |-> ""]
    /\ docs = <<>>
    /\ node_result = <<>>
    /\ states2 = <<>>
    /\ issued2 = <<>>
    /\ demo_table = DEMO_RESPONSES
    /\ ingest = IdleIngest

\* the caller extends the query by one fragment
TypeFragment ==
    /\ demo_result = <<>>
    /\ nfrags < MaxFrags
    /\ \E f \in Fragments : query' = query \o f
    /\ nfrags' = nfrags + 1
    /\ UNCHANGED <<demo_result, serverVars, index, nodeVars, ingestVars>>

\* the caller takes one of the suggested example queries
TypeSuggested ==
    /\ demo_result = <<>>
    /\ nfrags = 0
    /\ query' \in SuggestedQueries
    /\ nfrags' = MaxFrags
    /\ UNCHANGED <<demo_result, serverVars, index, nodeVars, ingestVars>>

\* result = get_demo_response(query)
CallDemo ==
    /\ demo_result = <<>>
    /\ demo_result' = <<get_demo_response(query)>>
    /\ UNCHANGED <<query, nfrags, serverVars, index, nodeVars, ingestVars>>

NextDemo == TypeFragment \/ TypeSuggested \/ CallDemo

SpecDemo == InitDemo /\ [][NextDemo]_vars

-----------------------------------------------------------------------------
(* Exceptions, messages and the external providers (agent.py).             *)

\* an exception object: its class and the argument it was built with
Exc(cls, arg) == [cls |-> cls, arg |-> arg]

\* str(e): a KeyError shows the repr of its key, the others their message
StrOfExc(e) == IF e.cls = "KeyError" THEN "'" \o e.arg \o "'" ELSE e.arg

\* classes that derive from BaseException but not from Exception
BaseOnlyClasses == {"KeyboardInterrupt", "SystemExit", "GeneratorExit"}

\* HumanMessage(content=c), and the AIMessage the language model answers with
HumanMessage(c) == [type |-> "human", content |-> c]
AIMessage(c) == [type |-> "ai", content |-> c]

\* the texts of the passages an index can hold
PassagePool ==
    << "Grade B: yield 35 ksi", "", "Table 1\n\nTensile 60 ksi", "22 HRC max",
       "A53", "x", "Charpy -50F", "y" >>

Range(s) == {s[i] : i \in 1..Len(s)}

RECURSIVE Rankings(_, _)
\* the ranked lists of at most n different passages of the set S
Rankings(S, n) ==
    IF n = 0 THEN {<<>>}
    ELSE LET shorter == Rankings(S, n - 1)
             longest == {s \in shorter : Len(s) = n - 1}
         IN  shorter \cup
             UNION {{Append(s, x) : x \in S \ Range(s)} : s \in longest}

\* what vectorstore.similarity_search(q, k=k) can return: the top passages for
\* q, most similar first, at most k of them; the ranking depends on embeddings
\* the model does not compute, so every ranking is possible
similarity_search(idx, q, k) ==
    {[i \in 1..Len(s) |-> [page_content |-> s[i]]] : s \in Rankings(idx, k)}

\* the errors the vector index and the language model calls can end with
SearchErrors == {Exc("ConnectionError", "vector index unreachable")}
LLMErrors == {Exc("TimeoutError", "language model timed out")}

\* the completions llm.invoke can return
LLMReplies == {"I don't know.", "35 ksi (241 MPa) [1]"}

\* k of similarity_search in retrieve
K == 5

\* messages[-1].content
LastContent(messages) == messages[Len(messages)].content

\* slip: the passages are joined by a single newline
RetrieveContextOneNewline(ds) ==
    join("\n", [i \in 1..Len(ds) |-> ds[i].page_content])

\* context = "\n\n".join([doc.page_content for doc in docs])
RetrieveContext(ds) ==
    join("\n\n", [i \in 1..Len(ds) |-> ds[i].page_content])

\* the f-string prompt of generate
Prompt(context, question) ==
    "You are an expert material science and steel engineer. \n"
    \o "    Use the following pieces of retrieved context to answer the question. \n"
    \o "    If you don't know the answer, say that you don't know. \n"
    \o "    Use technical language but be concise.\n"
    \o "    \n"
    \o "    Context:\n"
    \o "    " \o context \o "\n"
    \o "    \n"
    \o "    Question: " \o question \o "\n"
    \o "    "

\* the query retrieve sends to the index: last_message = messages[-1].content
RetrieveQuery(st) == LastContent(st.messages)

\* slip: the question is made of every message of the conversation
GeneratePromptAllMessages(st) ==
    Prompt(st.context,
           join("\n", [i \in 1..Len(st.messages) |-> st.messages[i].content]))

\* the prompt generate sends to the language model: question = messages[-1].content
GeneratePrompt(st) == Prompt(st.context, LastContent(st.messages))

\* the update generate returns, {"messages": [response]}, applied to the graph
\* state: AgentState declares messages without a reducer, so the update
\* replaces the value of the key
GenerateUpdate(st, reply) == [st EXCEPT !.messages = <<AIMessage(reply)>>]

-----------------------------------------------------------------------------
(* The HTTP layer (server.py).                                             *)

\* slip: `and` for `or`, demo mode only when both credentials are missing
DemoModeAtImportBothMissing(env) ==
    ~Truthy(env.GOOGLE_API_KEY) /\ ~Truthy(env.PINECONE_API_KEY)

\* DEMO_MODE = not os.getenv("GOOGLE_API_KEY") or not os.getenv("PINECONE_API_KEY")
DemoModeAtImport(env) ==
    ~Truthy(env.GOOGLE_API_KEY) \/ ~Truthy(env.PINECONE_API_KEY)

\* slip: the mode is worked out again from the environment on every request
ChatUsesDemoPerRequest == DemoModeAtImport(environ)

\* the test `if DEMO_MODE:` of chat reads the module global
ChatUsesDemo == DEMO_MODE

\* a request body: whether it parses as JSON, is a JSON object, has the key
\* "query", and the JSON type and text of that value
Body(json, object, has_query, qtype, q) ==
    [json |-> json, object |-> object, has_query |-> has_query,
     qtype |-> qtype, query |-> q]

QueryBody(q) == Body(TRUE, TRUE, TRUE, "str", q)

\* the queries sent to the running server
ServerQueries == {"", "What is the yield strength of A106 Grade B?"}

Bodies ==
    { Body(FALSE, FALSE, FALSE, "", "not valid json"),   \* not JSON
      Body(TRUE, TRUE, FALSE, "", ""),                   \* {}
      Body(TRUE, TRUE, TRUE, "int", "5") }               \* {"query": 5}
    \cup {QueryBody(q) : q \in ServerQueries}

\* slip: any JSON value of "query" is accepted and coerced to a string
QueryRequestValidCoercing(body) ==
    body.json /\ body.object /\ body.has_query

\* request: QueryRequest -- the body validates against the model (query: str)
QueryRequestValid(body) ==
    body.json /\ body.object /\ body.has_query /\ body.qtype = "str"

\* a value returned by a response-producing function, with its Python type
DictValue(d) == [type |-> "dict", value |-> d]
StrValue(s) == [type |-> "str", value |-> s]

SourceFields == {"ref", "document", "page", "content_preview"}

\* ChatResponse(response=result["response"],
\*              sources=[Source(**s) for s in result["sources"]])
\* either the response object or the exception its construction raises
BuildChatResponse(result) ==
    IF result.type = "str"
    THEN [ok |-> FALSE,
          exc |-> Exc("TypeError", "string indices must be integers, not 'str'")]
    ELSE IF "response" \notin DOMAIN result.value
    THEN [ok |-> FALSE, exc |-> Exc("KeyError", "response")]
    ELSE IF "sources" \notin DOMAIN result.value
    THEN [ok |-> FALSE, exc |-> Exc("KeyError", "sources")]
    ELSE IF \E i \in 1..Len(result.value.sources) :
                ~(SourceFields \subseteq DOMAIN result.value.sources[i])
    THEN [ok |-> FALSE, exc |-> Exc("ValidationError", "Field required")]
    ELSE [ok |-> TRUE,
          response |-> result.value.response,
          sources |-> [i \in 1..Len(result.value.sources) |->
                         [f \in SourceFields |-> result.value.sources[i][f]]]]

\* slip: the handler only catches the lookup errors it expects
ExceptClauseCatchesKeyError(e) == e.cls = "KeyError"

\* `except Exception as e` catches e
ExceptClauseCatches(e) == e.cls \notin BaseOnlyClasses

ReqIds == 1..MaxReq

\* a request nobody has sent yet
NewRequest ==
    [pc |-> "new", body |-> Body(FALSE, FALSE, FALSE, "", ""),
     calls |-> <<>>,                          \* the functions called for it, in order
     state |-> [messages |-> <<>>, context |-> ""],   \* the pipeline's AgentState
     result |-> <<>>,                         \* what the response-producing function returned
     raised |-> <<>>,                         \* the exception raised inside the try block
     status |-> 0, detail |-> <<>>, response |-> <<>>, sources |-> <<>>]

Call(fn, arg) == [fn |-> fn, arg |-> arg]

\* the HTTP answer 422 FastAPI gives for a body QueryRequest rejects
Respond422(req) == [req EXCEPT !.pc = "done", !.status = 422]

\* return ChatResponse(...): the HTTP answer 200 with the response model
Respond200(req, built) ==
    [req EXCEPT !.pc = "done", !.status = 200,
                !.response = <<built.response>>, !.sources = <<built.sources>>]

\* an exception e leaves the try block of chat: the except clause turns it
\* into HTTPException(status_code=500, detail=str(e)); one it does not catch
\* escapes the endpoint and the server answers a bare 500
HandleException(req, e) ==
    IF ExceptClauseCatches(e)
    THEN [req EXCEPT !.pc = "done", !.raised = <<e>>, !.status = 500,
                     !.detail = <<StrOfExc(e)>>]
    ELSE [req EXCEPT !.pc = "escaped", !.raised = <<e>>, !.status = 500]

\* the rest of chat once the response-producing function has returned result
FinishChat(req, result) ==
    LET built == BuildChatResponse(result)
        got == [req EXCEPT !.result = <<result>>]
    IN  IF built.ok THEN Respond200(got, built) ELSE HandleException(got, built.exc)

\* the passage the vector index behind the running server holds
ServerIndex == {PassagePool[1]}

Init ==
    /\ environ \in [GOOGLE_API_KEY : EnvValues, PINECONE_API_KEY : EnvValues]
    /\ startEnviron = environ
    /\ DEMO_MODE = DemoModeAtImport(environ)
    /\ index = ServerIndex
    /\ reqs = [r \in ReqIds |-> NewRequest]
    /\ healthResp = <<>>
    /\ query = ""
    /\ nfrags = 0
    /\ demo_result = <<>>
    /\ state = [messages |-> <<>>, context |-> ""]
    /\ docs = <<>>
    /\ node_result = <<>>
    /\ states2 = <<>>
    /\ issued2 = <<>>
    /\ demo_table = DEMO_RESPONSES
    /\ ingest = IdleIngest

\* POST /api/chat with a body FastAPI rejects: it does not validate as
\* QueryRequest, chat is not called and the answer is 422
ChatRejected(r) ==
    /\ reqs[r].pc = "new"
    /\ \E b \in Bodies :
         /\ ~QueryRequestValid(b)
         /\ reqs' = [reqs EXCEPT ![r] = Respond422([@ EXCEPT !.body = b])]
    /\ UNCHANGED <<environ, DEMO_MODE, startEnviron, healthResp, index, demo_table, demoVars, nodeVars, ingestVars>>

\* POST /api/chat in demo mode: result = get_demo_response(request.query),
\* then the response is built and returned
ChatDemo(r) ==
    /\ reqs[r].pc = "new"
    /\ ChatUsesDemo
    /\ \E b \in Bodies :
         /\ QueryRequestValid(b)
         /\ LET q == b.query
                called == [reqs[r] EXCEPT
                             !.body = b,
                             !.calls = Append(@, Call("get_demo_response", q))]
            IN  reqs' = [reqs EXCEPT ![r] =
                           FinishChat(called, DictValue(get_demo_response(q)))]
    /\ UNCHANGED <<environ, DEMO_MODE, startEnviron, healthResp, index, demo_table, demoVars, nodeVars, ingestVars>>

\* slip: the graph is entered at generate, retrieve is never run
EntryPointGenerate == "generate"

\* workflow.set_entry_point("retrieve")
EntryPoint == "retrieve"

\* workflow.add_edge("retrieve", "generate"); workflow.add_edge("generate", END)
NextNode(node) == IF node = "retrieve" THEN "generate" ELSE "END"

\* POST /api/chat in production mode up to the first provider call:
\* run_agent(request.query) builds the inputs and the graph enters retrieve
ChatAgent(r) ==
    /\ reqs[r].pc = "new"
    /\ ~ChatUsesDemo
    /\ \E b \in Bodies :
         /\ QueryRequestValid(b)
         /\ LET q == b.query
            IN  reqs' = [reqs EXCEPT ![r] =
                           [@ EXCEPT !.pc = EntryPoint,
                                     !.body = b,
                                     !.calls = Append(@, Call("run_agent", q)),
                                     !.state = [messages |-> <<HumanMessage(q)>>,
                                                context |-> ""]]]
    /\ UNCHANGED <<environ, DEMO_MODE, startEnviron, healthResp, index, demo_table, demoVars, nodeVars, ingestVars>>

\* the retrieve node: one similarity_search, which returns passages or raises
Retrieve(r) ==
    /\ reqs[r].pc = "retrieve"
    /\ LET last_message == RetrieveQuery(reqs[r].state)
           called == [reqs[r] EXCEPT
                        !.calls = Append(@, Call("similarity_search", last_message))]
       IN  \/ \E ds \in similarity_search(index, last_message, K) :
                reqs' = [reqs EXCEPT ![r] =
                           [called EXCEPT !.pc = NextNode("retrieve"),
                                          !.state.context = RetrieveContext(ds)]]
           \/ \E e \in SearchErrors :
                reqs' = [reqs EXCEPT ![r] = HandleException(called, e)]
    /\ UNCHANGED <<environ, DEMO_MODE, startEnviron, healthResp, index, demo_table, demoVars, nodeVars, ingestVars>>

\* the generate node: one llm.invoke, which returns a completion or raises;
\* on return the graph ends, run_agent returns result['messages'][-1].content
\* and chat builds its response from that
Generate(r) ==
    /\ reqs[r].pc = "generate"
    /\ NextNode("generate") = "END"
    /\ LET st == reqs[r].state
           prompt == GeneratePrompt(st)
           called == [reqs[r] EXCEPT !.calls = Append(@, Call("llm.invoke", prompt))]
       IN  \/ \E reply \in LLMReplies :
                LET final == GenerateUpdate(st, reply)
                    ended == [called EXCEPT !.state = final]
                IN  reqs' = [reqs EXCEPT ![r] =
                               FinishChat(ended, StrValue(LastContent(final.messages)))]
           \/ \E e \in LLMErrors :
                reqs' = [reqs EXCEPT ![r] = HandleException(called, e)]
    /\ UNCHANGED <<environ, DEMO_MODE, startEnviron, healthResp, index, demo_table, demoVars, nodeVars, ingestVars>>

\* HealthResponse(status="ok", mode="demo" if DEMO_MODE else "production")
HealthResponse(status, mode) ==
    [status |-> status, version |-> "1.0.0", mode |-> mode]

\* GET /health
Health ==
    /\ healthResp' = <<[status_code |-> 200,
                        body |-> HealthResponse("ok", IF DEMO_MODE THEN "demo"
                                                      ELSE "production")]>>
    /\ UNCHANGED <<environ, DEMO_MODE, startEnviron, reqs, index, demo_table, demoVars, nodeVars, ingestVars>>

\* the environment of the running process changes (os.environ[name] = value,
\* del os.environ[name])
SetEnv ==
    /\ \E name \in {"GOOGLE_API_KEY", "PINECONE_API_KEY"}, v \in EnvValues :
         /\ environ[name] # v
         /\ environ' = [environ EXCEPT ![name] = v]
    /\ UNCHANGED <<DEMO_MODE, startEnviron, reqs, healthResp, index, demo_table, demoVars, nodeVars, ingestVars>>

Next ==
    \/ \E r \in ReqIds : ChatRejected(r)
    \/ \E r \in ReqIds : ChatDemo(r)
    \/ \E r \in ReqIds : ChatAgent(r)
    \/ \E r \in ReqIds : Retrieve(r)
    \/ \E r \in ReqIds : Generate(r)
    \/ Health
    \/ SetEnv

Spec == Init /\ [][Next]_vars

-----------------------------------------------------------------------------
(* Direct calls of the retrieve node, as the unit tests make them: a state *)
(* with one or two messages, and an index that answers with some ranking.  *)

RetrieveStates ==
    { [messages |-> <<HumanMessage("What is A106?")>>, context |-> ""],
      [messages |-> <<HumanMessage("Hello"), HumanMessage("What is A106?")>>,
       context |-> ""] }

\* retrieve(state), given the list ds that similarity_search returns to it
retrieve(st, ds) == [context |-> RetrieveContext(ds)]

InitRetrieve ==
    /\ state \in RetrieveStates
    /\ docs = <<>>
    /\ node_result = <<>>
    /\ index = {PassagePool[i] : i \in 1..MaxPassages}
    /\ environ = [GOOGLE_API_KEY |-> <<"key">>, PINECONE_API_KEY |-> <<"key">>]
    /\ startEnviron = environ
    /\ DEMO_MODE = FALSE
    /\ reqs = <<>>
    /\ healthResp = <<>>
    /\ query = ""
    /\ nfrags = 0
    /\ demo_result = <<>>
    /\ states2 = <<>>
    /\ issued2 = <<>>
    /\ demo_table = DEMO_RESPONSES
    /\ ingest = IdleIngest

\* result = retrieve(state)
CallRetrieve ==
    /\ node_result = <<>>
    /\ \E ds \in similarity_search(index, LastContent(state.messages), K) :
         /\ docs' = <<ds>>
         /\ node_result' = <<retrieve(state, ds)>>
    /\ UNCHANGED <<state, states2, issued2, serverVars, index, demoVars, ingestVars>>

NextRetrieve == CallRetrieve

SpecRetrieve == InitRetrieve /\ [][NextRetrieve]_vars

-----------------------------------------------------------------------------
(* Properties of get_demo_response, checked under SpecDemo.                *)

\* positions of the non-default entries in table order
NonDefault == {i \in 1..Len(DEMO_RESPONSES) : DEMO_RESPONSES[i].key # "default"}

\* the keyword set of the i-th entry
KeywordSet(i) ==
    IF "query_match" \in DOMAIN DEMO_RESPONSES[i]
    THEN Range(DEMO_RESPONSES[i].query_match)
    ELSE {}

\* some keyword of the i-th entry occurs in q, case ignored
Hit(i, q) == \E kw \in KeywordSet(i) : StrIn(kw, lower(q))

\* the call returned the response and sources of the i-th entry
Returned(i) ==
    /\ demo_result[1].response = DEMO_RESPONSES[i].response
    /\ demo_result[1].sources = DEMO_RESPONSES[i].sources

DefaultPos == CHOOSE i \in 1..Len(DEMO_RESPONSES) : DEMO_RESPONSES[i].key = "default"

\* C1: get_demo_response is a first-match-wins decision list: it returns the
\* response and sources of the first non-default entry, in table order, one of
\* whose keywords is a substring of the lowercased query, and those of the
\* default entry when no entry has such a keyword.
DemoFirstMatchWins ==
    demo_result # <<>> =>
        IF \E i \in NonDefault : Hit(i, query)
        THEN \E i \in NonDefault :
                /\ Hit(i, query)
                /\ \A j \in NonDefault : j < i => ~Hit(j, query)
                /\ Returned(i)
        ELSE Returned(DefaultPos)

\* a query with an upper-case letter that hits two entries was answered by
\* the earlier of the two
DemoFirstMatchWitness ==
    /\ demo_result # <<>>
    /\ query # lower(query)
    /\ \E i, j \in NonDefault :
         i < j /\ Hit(i, query) /\ Hit(j, query) /\ Returned(i) /\ ~Returned(j)

\* C2 as stated: whenever the query contains a keyword of an entry, the call
\* returns that entry's response with its non-empty source list, and a query
\* with no keyword of any entry gets the default response.
DemoEveryHitEntryAnswers ==
    demo_result # <<>> =>
        /\ \A i \in NonDefault :
             Hit(i, query) => Returned(i) /\ Len(demo_result[1].sources) >= 1
        /\ (\A i \in NonDefault : ~Hit(i, query)) => Returned(DefaultPos)

\* a source record has the four fields of Source, none of them empty
SourceComplete(src) ==
    /\ SourceFields \subseteq DOMAIN src
    /\ \A f \in SourceFields : src[f] # ""

\* C9: whatever get_demo_response returns has a non-empty response and at
\* least one source, every source has non-empty ref, document, page and
\* content_preview, and the response model is built from it without error.
DemoResultWellFormed ==
    demo_result # <<>> =>
        /\ demo_result[1].response # ""
        /\ Len(demo_result[1].sources) >= 1
        /\ \A n \in 1..Len(demo_result[1].sources) :
             SourceComplete(demo_result[1].sources[n])
        /\ BuildChatResponse(DictValue(demo_result[1])).ok

\* a non-empty query without any keyword was answered with the default entry
\* and its single source
DemoResultWitness ==
    /\ demo_result # <<>>
    /\ query # ""
    /\ \A i \in NonDefault : ~Hit(i, query)
    /\ Returned(DefaultPos)
    /\ Len(demo_result[1].sources) = 1

-----------------------------------------------------------------------------
(* Properties of retrieve, checked under SpecRetrieve.                     *)

RECURSIVE Offset(_, _)
\* number of characters of the context that precede the i-th passage
Offset(ds, i) ==
    IF i = 1 THEN 0
    ELSE Offset(ds, i - 1) + Len(ds[i - 1].page_content) + Len("\n\n")

\* C10: the context retrieve returns consists of the texts of the passages the
\* index returned (at most 5), in their order, each pair of neighbours two
\* newlines apart, nothing before the first or after the last; with no
\* passage it is the empty string.
RetrieveContextJoined ==
    node_result # <<>> =>
        LET ds == docs[1]
            context == node_result[1].context
            n == Len(ds)
        IN  /\ n <= 5
            /\ n = 0 => context = ""
            /\ n > 0 => Len(context) = Offset(ds, n) + Len(ds[n].page_content)
            /\ \A i \in 1..n :
                 SubSeq(context, Offset(ds, i) + 1,
                        Offset(ds, i) + Len(ds[i].page_content)) = ds[i].page_content
            /\ \A i \in 2..n :
                 SubSeq(context, Offset(ds, i) - 1, Offset(ds, i)) = "\n\n"

\* the index returned five passages, among them an empty one and one with a
\* blank line inside, and retrieve returned a context
RetrieveFiveWitness ==
    /\ node_result # <<>>
    /\ Len(docs[1]) = 5
    /\ \E i, j \in 1..5 :
         docs[1][i].page_content = "" /\ docs[1][j].page_content = PassagePool[3]

\* the index returned no passage and retrieve returned the empty context
RetrieveEmptyWitness ==
    node_result # <<>> /\ docs[1] = <<>> /\ node_result[1].context = ""

-----------------------------------------------------------------------------
(* Properties of the HTTP layer, checked under Spec.                       *)

CredentialNames == {"GOOGLE_API_KEY", "PINECONE_API_KEY"}

\* both credentials were set, and not to the empty string, when the process
\* started
BothPresentAtStart ==
    \A name \in CredentialNames : startEnviron[name] \notin {Unset, <<"">>}

\* the request has been answered
Answered(r) == reqs[r].pc \in {"done", "escaped"}

\* the body is not JSON, or is JSON that does not match {query: string}
Malformed(body) ==
    ~body.json \/ ~body.object \/ ~body.has_query \/ body.qtype # "str"

\* the names of the functions called for the request, in order
CallNames(r) == [i \in 1..Len(reqs[r].calls) |-> reqs[r].calls[i].fn]

\* C3 as stated: in production mode a well-formed request whose run_agent
\* returned is answered 200 with the pipeline's answer as response and a list
\* of sources.
ProductionRunAnswers200 ==
    \A r \in ReqIds :
        (/\ BothPresentAtStart
         /\ Answered(r)
         /\ ~Malformed(reqs[r].body)
         /\ reqs[r].result # <<>>)
        => /\ reqs[r].status = 200
           /\ reqs[r].response = <<reqs[r].result[1].value>>
           /\ reqs[r].sources # <<>>

\* C4: an exception raised inside the try block of chat, by the
\* response-producing function or by the construction of the response, ends
\* the request with 500 and detail str(e); it does not escape and the request
\* gets no 200 response.
ChatExceptionIs500 ==
    \A r \in ReqIds :
        reqs[r].raised # <<>>
        => /\ reqs[r].pc = "done"
           /\ reqs[r].status = 500
           /\ reqs[r].detail = <<StrOfExc(reqs[r].raised[1])>>
           /\ reqs[r].response = <<>>
           /\ reqs[r].sources = <<>>

\* the language model call of a request raised and the request was answered
\* 500 with the error's message
ChatExceptionWitness ==
    \E r \in ReqIds :
        /\ reqs[r].raised # <<>>
        /\ reqs[r].raised[1] \in LLMErrors
        /\ reqs[r].result = <<>>
        /\ reqs[r].status = 500
        /\ reqs[r].detail = <<"language model timed out">>

\* what was called for the request fits the mode: the demo lookup alone in
\* demo mode, the pipeline and never the demo lookup in production mode
CallsFitMode(r) ==
    IF DEMO_MODE
    THEN CallNames(r) = <<"get_demo_response">>
    ELSE /\ CallNames(r)[1] = "run_agent"
         /\ \A i \in 1..Len(reqs[r].calls) : CallNames(r)[i] # "get_demo_response"

\* C5: the mode is the one the credentials at process start give, it never
\* changes afterwards whatever happens to the environment, and every request
\* that reaches chat is served by the demo lookup alone in demo mode and by
\* the pipeline alone in production mode.
ModeFixedAtStart ==
    /\ [][DEMO_MODE' = DEMO_MODE]_vars
    /\ [](DEMO_MODE = ~BothPresentAtStart)
    /\ [](\A r \in ReqIds :
            (reqs[r].pc # "new" /\ ~Malformed(reqs[r].body)) => CallsFitMode(r))

\* the environment no longer gives the mode the process runs in, and a
\* request has been served in the process's mode
ModeFixedWitness ==
    /\ DemoModeAtImport(environ) # DEMO_MODE
    /\ \E r \in ReqIds : Answered(r) /\ reqs[r].calls # <<>> /\ CallsFitMode(r)

\* C6: GET /health answers 200 with status "ok", a version, and the mode
\* "production" exactly when both credentials were present at start.
HealthAlwaysOk ==
    healthResp # <<>> =>
        /\ healthResp[1].status_code = 200
        /\ healthResp[1].body.status = "ok"
        /\ healthResp[1].body.version # ""
        /\ healthResp[1].body.mode =
              IF BothPresentAtStart THEN "production" ELSE "demo"

\* /health answered in production mode after a chat request had failed
HealthWitness ==
    /\ healthResp # <<>>
    /\ healthResp[1].body.mode = "production"
    /\ \E r \in ReqIds : reqs[r].status = 500

\* C7 as stated: a request with the body {"query": ""} whose
\* response-producing function returned is answered 200 with a response and
\* a list of sources.
EmptyQueryAnswers200 ==
    \A r \in ReqIds :
        (/\ Answered(r)
         /\ reqs[r].body = QueryBody("")
         /\ reqs[r].result # <<>>)
        => /\ reqs[r].status = 200
           /\ reqs[r].response # <<>>
           /\ reqs[r].sources # <<>>

\* C8: a request with a malformed body is answered 422 without chat being
\* called: no demo lookup, no pipeline run, no 200 and no 500.
MalformedBodyIs422 ==
    \A r \in ReqIds :
        (reqs[r].pc # "new" /\ Malformed(reqs[r].body))
        => /\ reqs[r].pc = "done"
           /\ reqs[r].status = 422
           /\ reqs[r].calls = <<>>
           /\ reqs[r].result = <<>>
           /\ reqs[r].raised = <<>>

\* the body {"query": 5} was rejected in production mode, the body
\* "not valid json" too
MalformedBodyWitness ==
    /\ ~DEMO_MODE
    /\ \E r1, r2 \in ReqIds :
         /\ reqs[r1].body = Body(TRUE, TRUE, TRUE, "int", "5")
         /\ reqs[r1].status = 422
         /\ ~reqs[r2].body.json
         /\ reqs[r2].status = 422

-----------------------------------------------------------------------------
(* Properties of the pipeline as the running server executes it, checked   *)
(* under Spec.                                                             *)

\* the calls of a whole pipeline run, in order
FullRun == <<"run_agent", "similarity_search", "llm.invoke">>

\* the request is served by a pipeline run
IsRun(r) == reqs[r].calls # <<>> /\ reqs[r].calls[1].fn = "run_agent"

\* the contexts retrieve can produce for the request
PossibleContexts(r) ==
    {RetrieveContext(ds) : ds \in similarity_search(index, reqs[r].body.query, 5)}

\* where a pipeline run stands agrees with what it has called so far: one
\* index query first, one language-model call after it and only after it,
\* the prompt built from the context retrieve left in the state, and a run
\* that returned has made all the calls and returns the model's reply
RunInOrder(r) ==
    LET names == CallNames(r)
        n == Len(names)
    IN  /\ n <= 3 /\ names = SubSeq(FullRun, 1, n)
        /\ reqs[r].pc = "retrieve" => n = 1
        /\ reqs[r].pc = "generate" => n = 2
        /\ n >= 2 => reqs[r].calls[2].arg = reqs[r].body.query
        /\ (n >= 2 /\ reqs[r].raised = <<>>) =>
               reqs[r].state.context \in PossibleContexts(r)
        /\ n = 3 => reqs[r].calls[3].arg =
                       Prompt(reqs[r].state.context, reqs[r].body.query)
        /\ reqs[r].result # <<>> =>
               /\ n = 3
               /\ reqs[r].result[1].type = "str"
               /\ reqs[r].result[1].value \in LLMReplies
               /\ reqs[r].result[1].value = LastContent(reqs[r].state.messages)

\* the moves of a request from one stage to the next
StageMoves ==
    { <<"new", "retrieve">>, <<"retrieve", "generate">>, <<"generate", "done">>,
      <<"retrieve", "done">>, <<"new", "done">> }

\* C11: every pipeline run goes retrieve, then generate, then the end, with
\* one index query that is over before the one language-model call is made
\* and the retrieved context in the prompt, also when no passage was found;
\* a run leaves this order only by stopping at a provider error.
PipelineFixedSequence ==
    /\ [](\A r \in ReqIds : IsRun(r) => RunInOrder(r))
    /\ [][\A r \in ReqIds :
            reqs'[r].pc # reqs[r].pc => <<reqs[r].pc, reqs'[r].pc>> \in StageMoves]_vars

\* a run whose retrieval found no passage went on to generate with the
\* empty context and returned the model's reply
PipelineEmptyContextWitness ==
    \E r \in ReqIds :
        /\ CallNames(r) = FullRun
        /\ reqs[r].state.context = ""
        /\ reqs[r].calls[3].arg = Prompt("", reqs[r].body.query)
        /\ reqs[r].result = <<StrValue("I don't know.")>>

\* C12 as stated: once generate has run, the message list of the pipeline
\* state is the original list followed by the model's reply, and the context
\* is the one generate read.
GenerateAppendsReply ==
    \A r \in ReqIds :
        (IsRun(r) /\ reqs[r].result # <<>>)
        => /\ reqs[r].state.messages =
                <<HumanMessage(reqs[r].body.query), AIMessage(reqs[r].result[1].value)>>
           /\ reqs[r].calls[3].arg = Prompt(reqs[r].state.context, reqs[r].body.query)

-----------------------------------------------------------------------------
(* The two nodes run side by side on two AgentStates, to compare what they *)
(* send out.                                                               *)

\* messages in one conversation
MaxMsgs == 2

MessageContents == {"Hello", "What is A106?", "What is A53?"}

RECURSIVE Conversations(_)
\* the message lists of 1 to n human messages
Conversations(n) ==
    IF n = 0 THEN {}
    ELSE LET shorter == Conversations(n - 1)
         IN  {<<HumanMessage(c)>> : c \in MessageContents}
             \cup shorter
             \cup {<<HumanMessage(c)>> \o ms : c \in MessageContents, ms \in shorter}

PairStates ==
    [messages : Conversations(MaxMsgs), context : {"", PassagePool[1]}]

InitPair ==
    /\ states2 \in PairStates \X PairStates
    /\ issued2 = <<>>
    /\ state = [messages |-> <<>>, context |-> ""]
    /\ docs = <<>>
    /\ node_result = <<>>
    /\ index = ServerIndex
    /\ environ = [GOOGLE_API_KEY |-> <<"key">>, PINECONE_API_KEY |-> <<"key">>]
    /\ startEnviron = environ
    /\ DEMO_MODE = FALSE
    /\ reqs = <<>>
    /\ healthResp = <<>>
    /\ query = ""
    /\ nfrags = 0
    /\ demo_result = <<>>
    /\ demo_table = DEMO_RESPONSES
    /\ ingest = IdleIngest

\* retrieve and generate are run on each of the two states; what is recorded
\* is the argument of similarity_search and the argument of llm.invoke
CallNodesPair ==
    /\ issued2 = <<>>
    /\ issued2' = [i \in 1..2 |->
                     [query |-> RetrieveQuery(states2[i]),
                      prompt |-> GeneratePrompt(states2[i])]]
    /\ UNCHANGED <<states2, state, docs, node_result, serverVars, index, demoVars,
                   ingestVars>>

NextPair == CallNodesPair

SpecPair == InitPair /\ [][NextPair]_vars

\* C13: the index query and the question in the prompt are the content of
\* the last message: two states with the same last message send the same
\* index query, and with the same context also the same prompt, whatever
\* their earlier messages are.
OnlyLastMessageUsed ==
    issued2 # <<>> =>
        /\ \A i \in 1..2 :
             issued2[i].query =
                 states2[i].messages[Len(states2[i].messages)].content
        /\ (states2[1].messages[Len(states2[1].messages)] =
            states2[2].messages[Len(states2[2].messages)])
           => /\ issued2[1].query = issued2[2].query
              /\ states2[1].context = states2[2].context
                 => issued2[1].prompt = issued2[2].prompt

\* two conversations of different length and different first message, with
\* the same last message and context, sent the same query and prompt
OnlyLastMessageWitness ==
    /\ issued2 # <<>>
    /\ Len(states2[1].messages) = 1
    /\ Len(states2[2].messages) = 2
    /\ states2[2].messages[1] # states2[1].messages[1]
    /\ states2[2].messages[2] = states2[1].messages[1]
    /\ states2[1].context = states2[2].context
    /\ issued2[1] = issued2[2]

-----------------------------------------------------------------------------
(* Independence of the requests, checked under Spec.                       *)

\* what the providers gave the request: the context and reply left in its
\* pipeline state, and the error a provider call ended with
ProviderOutcome(r) ==
    <<reqs[r].state,
      IF reqs[r].raised # <<>> /\ reqs[r].raised[1] \in SearchErrors \cup LLMErrors
      THEN reqs[r].raised ELSE <<>>>>

\* the HTTP answer of the request
Answer(r) ==
    <<reqs[r].status, reqs[r].detail, reqs[r].response, reqs[r].sources>>

\* a step of one request leaves every other request as it was
OneRequestPerStep ==
    \A r1, r2 \in ReqIds :
        (r1 # r2 /\ reqs'[r1] # reqs[r1]) => reqs'[r2] = reqs[r2]

\* C14: under every interleaving no step writes the demo table or the mode,
\* the table stays the one of process start, a step of one request leaves
\* the others untouched, and two requests with the same body (and, in
\* production mode, the same provider outcome) get the same answer, so a
\* query always yields the same demo response.
RequestsIndependent ==
    /\ [][/\ DEMO_MODE' = DEMO_MODE
          /\ demo_table' = demo_table
          /\ OneRequestPerStep]_vars
    /\ [](demo_table = DEMO_RESPONSES)
    /\ [](\A r1, r2 \in ReqIds :
            (/\ Answered(r1) /\ Answered(r2)
             /\ reqs[r1].body = reqs[r2].body
             /\ DEMO_MODE \/ ProviderOutcome(r1) = ProviderOutcome(r2))
            => Answer(r1) = Answer(r2))

\* two requests with the same query were answered alike from the demo table
\* although the environment had changed to hold both credentials
RequestsIndependentWitness ==
    /\ DEMO_MODE
    /\ ~DemoModeAtImport(environ)
    /\ \E r1, r2 \in ReqIds :
         /\ r1 # r2
         /\ reqs[r1].body = QueryBody("What is the yield strength of A106 Grade B?")
         /\ reqs[r2].body = reqs[r1].body
         /\ reqs[r1].status = 200
         /\ Answer(r1) = Answer(r2)
         /\ reqs[r1].response = <<DEMO_RESPONSES[1].response>>

-----------------------------------------------------------------------------
(* The ingestion batch job (ingest.py).  ingest is a record: where the run *)
(* of ingest_data stands (pc), the world it runs in (whether ./data        *)
(* exists, how many documents the loader finds there, PINECONE_API_KEY as  *)
(* read at import, whether the index exists), what the run has got so far  *)
(* and the operations it has performed, in order (ops).                    *)

\* documents the loader can find in ./data
MaxDocs == 2
\* describe_index calls before a new index reports ready
MaxPolls == 2

\* the world and the run before ingest_data is called; the module has been
\* imported, so GOOGLE_API_KEY is set
IngestStart(dir, pdfs, key, idx) ==
    [pc |-> "start", dir_exists |-> dir, dir_at_start |-> dir, pdfs |-> pdfs,
     key |-> key, index_exists |-> idx,
     docs |-> <<>>,        \* <<>> or <<number of documents loaded>>
     chunks |-> <<>>,      \* <<>> or <<number of chunks>>
     polls |-> 0, vectors |-> 0, ops |-> <<>>]

InitIngest ==
    /\ \E dir \in BOOLEAN, key \in EnvValues, idx \in BOOLEAN :
         \E pdfs \in IF dir THEN 0..MaxDocs ELSE {0} :
            ingest = IngestStart(dir, pdfs, key, idx)
    /\ environ = [GOOGLE_API_KEY |-> <<"key">>, PINECONE_API_KEY |-> ingest.key]
    /\ startEnviron = environ
    /\ DEMO_MODE = DemoModeAtImport(environ)
    /\ index = {}
    /\ reqs = <<>>
    /\ healthResp = <<>>
    /\ query = ""
    /\ nfrags = 0
    /\ demo_result = <<>>
    /\ state = [messages |-> <<>>, context |-> ""]
    /\ docs = <<>>
    /\ node_result = <<>>
    /\ states2 = <<>>
    /\ issued2 = <<>>
    /\ demo_table = DEMO_RESPONSES

Did(g, op) == [g EXCEPT !.ops = Append(@, op)]

\* a call of a loader, splitter or Pinecone function raised: the exception
\* leaves ingest_data
IngestRaised(g) == [g EXCEPT !.pc = "raised"]

\* if not os.path.exists(DATA_DIR): os.makedirs(DATA_DIR); return
IngestCheckDir ==
    /\ ingest.pc = "start"
    /\ ingest' = IF ~ingest.dir_exists
                 THEN [Did(ingest, "makedirs") EXCEPT !.dir_exists = TRUE,
                                                      !.pc = "returned"]
                 ELSE [ingest EXCEPT !.pc = "load"]
    /\ UNCHANGED <<serverVars, index, demoVars, nodeVars>>

\* slip: the run goes on to chunk an empty list of documents
NoDocumentsNever(n) == FALSE

\* if not docs:
NoDocuments(n) == n = 0

\* docs = loader.load(); if not docs: return
IngestLoad ==
    /\ ingest.pc = "load"
    /\ LET called == Did(ingest, "loader.load")
       IN  \/ ingest' = [called EXCEPT
                           !.docs = <<ingest.pdfs>>,
                           !.pc = IF NoDocuments(ingest.pdfs) THEN "returned"
                                  ELSE "chunk"]
           \/ ingest' = IngestRaised(called)
    /\ UNCHANGED <<serverVars, index, demoVars, nodeVars>>

\* if not PINECONE_API_KEY:
CredentialMissing(key) == ~Truthy(key)

\* chunks = text_splitter.split_documents(docs);
\* if not PINECONE_API_KEY: return
IngestChunk ==
    /\ ingest.pc = "chunk"
    /\ LET called == Did(ingest, "split_documents")
       IN  \/ \E n \in {ingest.docs[1], ingest.docs[1] + 1} :
                ingest' = [called EXCEPT
                             !.chunks = <<n>>,
                             !.pc = IF CredentialMissing(ingest.key) THEN "returned"
                                    ELSE "connect"]
           \/ ingest' = IngestRaised(called)
    /\ UNCHANGED <<serverVars, index, demoVars, nodeVars>>

\* pc = Pinecone(api_key=...); existing_indexes = [... pc.list_indexes()];
\* if INDEX_NAME not in existing_indexes:
IngestListIndexes ==
    /\ ingest.pc = "connect"
    /\ LET called == Did(Did(ingest, "Pinecone"), "list_indexes")
       IN  \/ ingest' = [called EXCEPT
                           !.pc = IF ingest.index_exists THEN "upload" ELSE "create"]
           \/ ingest' = IngestRaised(called)
    /\ UNCHANGED <<serverVars, index, demoVars, nodeVars>>

\* pc.create_index(name=INDEX_NAME, dimension=768, metric="cosine", ...)
IngestCreateIndex ==
    /\ ingest.pc = "create"
    /\ LET called == Did(ingest, "create_index")
       IN  \/ ingest' = [called EXCEPT !.index_exists = TRUE, !.pc = "wait"]
           \/ ingest' = IngestRaised(called)
    /\ UNCHANGED <<serverVars, index, demoVars, nodeVars>>

\* while not pc.describe_index(INDEX_NAME).status["ready"]: time.sleep(1)
IngestPoll ==
    /\ ingest.pc = "wait"
    /\ LET called == [Did(ingest, "describe_index") EXCEPT !.polls = @ + 1]
       IN  \/ ingest' = [called EXCEPT !.pc = "upload"]
           \/ /\ called.polls < MaxPolls
              /\ ingest' = called
    /\ UNCHANGED <<serverVars, index, demoVars, nodeVars>>

\* PineconeVectorStore.from_documents(chunks, embeddings, index_name=INDEX_NAME)
IngestUpload ==
    /\ ingest.pc = "upload"
    /\ LET called == Did(ingest, "from_documents")
       IN  \/ ingest' = [called EXCEPT !.vectors = ingest.chunks[1], !.pc = "returned"]
           \/ ingest' = IngestRaised(called)
    /\ UNCHANGED <<serverVars, index, demoVars, nodeVars>>

NextIngest ==
    \/ IngestCheckDir
    \/ IngestLoad
    \/ IngestChunk
    \/ IngestListIndexes
    \/ IngestCreateIndex
    \/ IngestPoll
    \/ IngestUpload

SpecIngest == InitIngest /\ [][NextIngest]_vars

\* the operations on the vector index
IndexOps == {"Pinecone", "list_indexes", "create_index", "describe_index",
             "from_documents"}

Performed == Range(ingest.ops)

\* C15: ingest_data returns early, without raising and without any later
\* step: after creating a missing data directory; after a load that found no
\* document; after chunking when the index credential is missing.  Index
\* operations, the upload among them, happen only in a run that found
\* documents and has the credential.
IngestStopsEarly ==
    /\ (ingest.pc # "start" /\ ~ingest.dir_at_start)
       => /\ ingest.pc = "returned"
          /\ ingest.dir_exists
          /\ ingest.ops = <<"makedirs">>
    /\ ingest.docs = <<0>>
       => /\ ingest.pc = "returned"
          /\ ingest.ops = <<"loader.load">>
    /\ (ingest.chunks # <<>> /\ ingest.key \in {Unset, <<"">>})
       => /\ ingest.pc = "returned"
          /\ ingest.ops = <<"loader.load", "split_documents">>
    /\ Performed \cap IndexOps # {}
       => /\ ingest.dir_at_start
          /\ ingest.docs # <<>> /\ ingest.docs[1] > 0
          /\ ingest.chunks # <<>>
          /\ ingest.key \notin {Unset, <<"">>}
    /\ ingest.vectors > 0 => "from_documents" \in Performed

\* a run with documents and PINECONE_API_KEY set to the empty string has
\* chunked them and returned without touching the index
IngestNoCredentialWitness ==
    /\ ingest.pc = "returned"
    /\ ingest.key = <<"">>
    /\ ingest.docs = <<MaxDocs>>
    /\ ingest.ops = <<"loader.load", "split_documents">>
    /\ ingest.vectors = 0

====
